---- MODULE Spec2Model ----
(***************************************************************************)
(* Model of extraction_engine.py: the per-field extraction pipeline        *)
(* (extract_attributes_from_java), the project scan that writes one        *)
(* document per field name (scan_java_project) and the index aggregation   *)
(* (generate_index_json).                                                  *)
(*                                                                         *)
(* Text is modelled at token level.  A line is a record                    *)
(*   [lead, toks, term]                                                    *)
(* lead : number of leading blanks (removed by str.strip),                 *)
(* toks : the maximal \w-runs and punctuation marks of the line, in order, *)
(* term : the line boundary that ends it: "LF" is '\n', "FF" is a form     *)
(*        feed, which str.splitlines treats as a line boundary but which   *)
(*        str.count('\n') does not count.                                  *)
(* A path is the sequence of its components; the last one is the file      *)
(* name.  The directory that holds the project root is the empty path.     *)
(* The file system fs is the sequence of its files in the order in which   *)
(* a directory walk (rglob) lists them.                                    *)
(***************************************************************************)
EXTENDS Integers, Sequences, FiniteSets, TLC

VARIABLES fs, pending, store, log, index, status, zip_files, reports

vars == <<fs, pending, store, log, index, status, zip_files, reports>>

(***************************************************************************)
(* Bounds of the model.                                                    *)
(***************************************************************************)
MaxSize == 2       \* size of the file system: 1 per source line of a readable
                   \* source file, 1 per markup file and per unreadable file

MaxLines == 3      \* lines of the source file of a one-file project

MaxAliasLines == 10  \* lines of a source file with one alias source

MaxFiles == 3      \* files of a project that is scanned in two orders

MaxArchives == 2   \* archives of a run over several archives

(***************************************************************************)
(* Values standing for Python's None in a location.                        *)
(***************************************************************************)
NoPath == <<>>
NoLine == -1

(***************************************************************************)
(* Generic helpers.                                                        *)
(***************************************************************************)
RECURSIVE ConcatAll(_)
ConcatAll(ss) == IF ss = <<>> THEN <<>> ELSE Head(ss) \o ConcatAll(Tail(ss))

Range(s) == {s[i] : i \in 1..Len(s)}

Perms(S) == {p \in [1..Cardinality(S) -> S] : \A x \in S : \E i \in DOMAIN p : p[i] = x}

IsPrefix(p, q) == Len(p) <= Len(q) /\ SubSeq(q, 1, Len(p)) = p

(***************************************************************************)
(* The vocabulary: what Python's substring test `kw in s.lower()` answers  *)
(* for the tokens and path components the model uses.                      *)
(***************************************************************************)
SubstringsOf(tok) ==
    CASE tok = "fromDate"        -> {"from"}
      [] tok = "findByEmail"     -> {"find"}
      [] tok = "@GetMapping"     -> {"get", "@getmapping"}
      [] tok = "GetMapping"      -> {"get"}
      [] tok = "UserServiceTest" -> {"test"}
      [] tok = "model"           -> {"model"}
      [] tok = "repository"      -> {"repo", "repository"}
      [] tok = "service"         -> {"service"}
      [] tok = "UserRepository.java"  -> {"repo", "repository"}
      [] tok = "UserServiceTest.java" -> {"service", "test"}
      [] tok = "index.html"      -> {"html"}
      [] OTHER                   -> {}

\* kw in s.lower(), s the text made of the tokens (or path components) ts
Contains(ts, kw) == \E i \in 1..Len(ts) : kw \in SubstringsOf(ts[i])

ContainsAny(ts, kws) == \E kw \in kws : Contains(ts, kw)

\* Path.stem of a file name
Stem(name) ==
    CASE name = "User.java"            -> "User"
      [] name = "UserRepository.java"  -> "UserRepository"
      [] name = "UserServiceTest.java" -> "UserServiceTest"
      [] name = "index.html"           -> "index"
      [] OTHER                         -> name

\* tokens matching \w+ in full (the regex classes [\w<>]+ and [\w_]+)
WordTokens == {"private", "protected", "public", "class", "String", "Date",
               "email", "fromDate", "findByEmail", "contact", "User",
               "GetMapping", "UserRepository", "UserServiceTest"}

Visibility == {"private", "protected", "public"}

RestAnnotations == {"@GetMapping", "@PostMapping", "@PutMapping", "@DeleteMapping",
                    "@RequestMapping", "@ApiOperation"}

HttpClients == {"httpClient", "restTemplate", "WebClient"}

\* the method names the external-call pattern accepts after the dot
HttpVerbTokens == {"get", "post", "put", "delete"}

\* "@GetMapping" -> "GetMapping": the group the regex captures
AnnotationName(tok) ==
    CASE tok = "@GetMapping"     -> "GetMapping"
      [] tok = "@PostMapping"    -> "PostMapping"
      [] tok = "@PutMapping"     -> "PutMapping"
      [] tok = "@DeleteMapping"  -> "DeleteMapping"
      [] tok = "@RequestMapping" -> "RequestMapping"
      [] tok = "@ApiOperation"   -> "ApiOperation"
      [] OTHER                   -> tok

(***************************************************************************)
(* classify_layer                                                          *)
(***************************************************************************)
classify_layer(path) ==
    IF ContainsAny(path, {"model", "entity", "domain"}) THEN "MODEL"
    ELSE IF ContainsAny(path, {"repo", "repository", "dao"}) THEN "REPOSITORY"
    ELSE IF ContainsAny(path, {"service"}) THEN "SERVICE"
    ELSE IF ContainsAny(path, {"controller", "rest", "api"}) THEN "CONTROLLER"
    ELSE IF ContainsAny(path, {"ui", "view", "page", "html", "jsp"}) THEN "UI"
    ELSE "DEFAULT"

(***************************************************************************)
(* Reading a file: str.splitlines, the class name, the field list.         *)
(***************************************************************************)
FileName(path) == path[Len(path)]

\* line.strip(): the text of the line without its leading blanks
Strip(line) == line.toks

\* re.search(r'class\s+(\w+)', content): first "class" followed by a word
ClassPositions(f) ==
    UNION {{<<i, k>> : k \in {c \in 1..(Len(f.lines[i].toks) - 1) :
                                  /\ f.lines[i].toks[c] = "class"
                                  /\ f.lines[i].toks[c + 1] \in WordTokens}} :
           i \in 1..Len(f.lines)}

FirstPosition(ps) ==
    CHOOSE p \in ps : \A q \in ps : p[1] < q[1] \/ (p[1] = q[1] /\ p[2] <= q[2])

ClassName(f) ==
    IF ClassPositions(f) = {} THEN Stem(FileName(f.path))
    ELSE LET p == FirstPosition(ClassPositions(f))
         IN  f.lines[p[1]].toks[p[2] + 1]

\* re.match(r'\s*(private|protected|public)\s+([\w<>]+)\s+([\w_]+)\s*;', line)
FieldMatch(line) ==
    /\ Len(line.toks) >= 4
    /\ line.toks[1] \in Visibility
    /\ line.toks[2] \in WordTokens
    /\ line.toks[3] \in WordTokens
    /\ line.toks[4] = ";"

FieldOf(line) == <<line.toks[1], line.toks[2], line.toks[3]>>

\* the list `fields`: one (visibility, type, name) per matching line, in order
Fields(f) ==
    ConcatAll([i \in 1..Len(f.lines) |->
        IF FieldMatch(f.lines[i]) THEN <<FieldOf(f.lines[i])>> ELSE <<>>])

\* the line numbers (1-based) of those lines: i + 1 of the enumerate loop
FieldLines(f) ==
    ConcatAll([i \in 1..Len(f.lines) |-> IF FieldMatch(f.lines[i]) THEN <<i>> ELSE <<>>])

\* re.search(rf'{visibility}\s+{type}\s+{name}\s*;', line): anywhere in the line
DeclSearch(line, field) ==
    \E k \in 1..Len(line.toks) :
        /\ k + 3 <= Len(line.toks)
        /\ line.toks[k] = field[1]
        /\ line.toks[k + 1] = field[2]
        /\ line.toks[k + 2] = field[3]
        /\ line.toks[k + 3] = ";"

\* line_num: 1-based number of the first line the search matches (0: none)
DeclLineNum(f, field) ==
    LET hits == {i \in 1..Len(f.lines) : DeclSearch(f.lines[i], field)}
    IN  IF hits = {} THEN 0 ELSE CHOOSE i \in hits : \A j \in hits : i <= j

\* snippet: the stripped text of that line
DeclSnippet(f, field) ==
    IF DeclLineNum(f, field) = 0 THEN <<>> ELSE Strip(f.lines[DeclLineNum(f, field)])

(***************************************************************************)
(* Documentation comments above the declaration: the 8 lines above         *)
(* line_num, nearest first; '/** ... */' on one line, or a '//' comment.   *)
(***************************************************************************)
CommentOf(line) ==
    LET t == Strip(line)
        closes == {k \in 2..Len(t) : t[k] = "*/"}
    IN  IF t # <<>> /\ t[1] = "/**" /\ closes # {}
          THEN <<SubSeq(t, 2, (CHOOSE k \in closes : \A m \in closes : k <= m) - 1)>>
        ELSE IF t # <<>> /\ t[1] = "//" THEN <<Tail(t)>>
        ELSE <<>>

DocComments(f, lineNum) ==
    LET lo == IF lineNum - 8 > 1 THEN lineNum - 8 ELSE 1
        n  == lineNum - lo              \* lines lo .. lineNum-1, walked downwards
    IN  IF lineNum = 0 THEN <<>>
        ELSE ConcatAll([d \in 1..n |-> CommentOf(f.lines[lineNum - d])])

(***************************************************************************)
(* Aliases: the names found around the declaration.  A quoted string is    *)
(* the tokens '"', its text, '"'; the texts of the model are one token.    *)
(***************************************************************************)
\* the tokens that are a word ([\w_]+) in an alias position
AliasWords == WordTokens \cup {"USER_EMAIL", "USERS", "mail", "alias", "name"}

\* str.lower() of the word after '//' (re.IGNORECASE)
Lower(tok) == IF tok \in {"alias", "Alias", "ALIAS"} THEN "alias" ELSE tok

\* the positions j of 'name = "X"' in a line, after annotation( further left
NameArgs(t, annotation) ==
    {j \in 1..(Len(t) - 4) :
        /\ t[j] = "name" /\ t[j + 1] = "=" /\ t[j + 2] = "\""
        /\ t[j + 3] # "\"" /\ t[j + 4] = "\""
        /\ \E i \in 1..(j - 2) : t[i] = annotation /\ t[i + 1] = "("}

\* re.search(r'@Column\s*\(.*name\s*=\s*"([^"]+)"', line): '.*' is greedy,
\* the last name argument of the line is taken
AnnotationAlias(line, annotation) ==
    LET js == NameArgs(line.toks, annotation)
    IN  IF js = {} THEN {}
        ELSE {line.toks[(CHOOSE j \in js : \A k \in js : k <= j) + 3]}

\* re.search(r'//\s*alias\s*:?\s*([\w_]+)', line, re.IGNORECASE): the first
\* match of the line
CommentAlias(line) ==
    LET t  == line.toks
        Arg(i) == IF i + 2 <= Len(t) /\ t[i + 2] = ":" THEN i + 3 ELSE i + 2
        is == {i \in 1..(Len(t) - 2) :
                 /\ t[i] = "//" /\ Lower(t[i + 1]) = "alias"
                 /\ Arg(i) <= Len(t) /\ t[Arg(i)] \in AliasWords}
    IN  IF is = {} THEN {}
        ELSE {t[Arg(CHOOSE i \in is : \A k \in is : i <= k)]}

\* re.findall(rf'{field_name}\s*[:=]\s*([\w_]+)', line), the field's own name
\* left out
AssignAliases(line, name) ==
    LET t == line.toks
    IN  {t[i + 2] : i \in {k \in 1..(Len(t) - 2) :
                             /\ t[k] = name /\ t[k + 1] \in {":", "="}
                             /\ t[k + 2] \in AliasWords /\ t[k + 2] # name}}

\* the lines (1-based) with index j in range(line_num-6, line_num+2),
\* 0 <= j < len(lines)
AliasWindow(f, lineNum) ==
    {k \in 1..Len(f.lines) : lineNum - 6 <= k - 1 /\ k - 1 < lineNum + 2}

\* the lines with index in range(max(0, line_num-10), min(len(lines), line_num+10))
AssignWindow(f, lineNum) ==
    {k \in 1..Len(f.lines) : lineNum - 10 <= k - 1 /\ k - 1 < lineNum + 10}

\* the set `aliases`; the order of list(aliases) is not modelled
Aliases(f, name, lineNum) ==
    UNION {AnnotationAlias(f.lines[k], "@Column") \cup AnnotationAlias(f.lines[k], "@Table")
             \cup CommentAlias(f.lines[k]) : k \in AliasWindow(f, lineNum)}
    \cup UNION {AssignAliases(f.lines[k], name) : k \in AssignWindow(f, lineNum)}

(***************************************************************************)
(* Components (occurrences).                                               *)
(***************************************************************************)
Component(layer, path, cls, usage, snippet, lineRange) ==
    [type |-> layer, filePath |-> path, className |-> cls,
     usageType |-> usage, snippet |-> snippet, lineRange |-> lineRange]

\* the component of the declaration itself
DeclComponent(f, field) ==
    Component(classify_layer(f.path), f.path, ClassName(f), field[1],
              DeclSnippet(f, field), DeclLineNum(f, field))

\* jcontent[:m.start()].count('\n') for a match on line k (1-based) of g
NewlinesBefore(g, k) == Cardinality({i \in 1..(k - 1) : g.lines[i].term = "LF"})

\* lines_j[line_idx].strip() if line_idx < len(lines_j) else ''
ContextLine(g, k) ==
    IF NewlinesBefore(g, k) < Len(g.lines)
      THEN Strip(g.lines[NewlinesBefore(g, k) + 1])
      ELSE <<>>

\* the whole-word matches of name in g, in text order: <<line, token position>>
WordMatches(g, name) ==
    ConcatAll([k \in 1..Len(g.lines) |->
        LET t == g.lines[k].toks
        IN  ConcatAll([c \in 1..Len(t) |-> IF t[c] = name THEN <<k>> ELSE <<>>])])

\* the body of the finditer loop for one match on line k of g; path and
\* snippet are java_path and class_snippet of the declaration
ReferenceOf(path, snippet, g, k) ==
    IF g.path = path /\ ContextLine(g, k) = snippet
      THEN <<>>
      ELSE <<Component(classify_layer(g.path), g.path, ClassName(g), "REFERENCE",
                       ContextLine(g, k), NewlinesBefore(g, k) + 1)>>

\* one file of the reference scan; an unreadable file is skipped
ReferencesIn(path, snippet, name, g) ==
    IF ~g.readable THEN <<>>
    ELSE LET ms == WordMatches(g, name)
         IN  ConcatAll([m \in 1..Len(ms) |-> ReferenceOf(path, snippet, g, ms[m])])

\* fault variant of ReferenceScan: the loop ends with the first file that
\* holds a reference
ReferenceScan_FirstFile(path, snippet, name, files) ==
    LET hits == {j \in 1..Len(files) : ReferencesIn(path, snippet, name, files[j]) # <<>>}
    IN  IF hits = {} THEN <<>>
        ELSE ReferencesIn(path, snippet, name,
                          files[CHOOSE j \in hits : \A k \in hits : j <= k])

\* the loop over all_java_files
ReferenceScan(path, snippet, name, files) ==
    ConcatAll([j \in 1..Len(files) |-> ReferencesIn(path, snippet, name, files[j])])

\* all tokens of a file, in text order
AllTokens(g) == ConcatAll([k \in 1..Len(g.lines) |-> g.lines[k].toks])

\* re.findall(r'@(GetMapping|...)', jcontent)
RestAnnots(g) ==
    LET t == AllTokens(g)
    IN  ConcatAll([c \in 1..Len(t) |->
            IF t[c] \in RestAnnotations THEN <<AnnotationName(t[c])>> ELSE <<>>])

\* re.findall(r'(httpClient|restTemplate|WebClient)\.(get|post|put|delete)', jcontent)
ExternalCalls(g) ==
    LET t == AllTokens(g)
    IN  ConcatAll([c \in 1..Len(t) |->
            IF /\ c + 2 <= Len(t)
               /\ t[c] \in HttpClients /\ t[c + 1] = "." /\ t[c + 2] \in HttpVerbTokens
              THEN <<t[c], ".", t[c + 2]>> ELSE <<>>])

\* the file-level synthetic components of one file
SyntheticIn(g) ==
    IF ~g.readable THEN <<>>
    ELSE (IF RestAnnots(g) # <<>>
            THEN <<Component("CONTROLLER", g.path, Stem(FileName(g.path)),
                             "REST_ANNOTATION", RestAnnots(g), 0)>>
            ELSE <<>>)
      \o (IF ExternalCalls(g) # <<>>
            THEN <<Component("INTEGRATION", g.path, Stem(FileName(g.path)),
                             "EXTERNAL_CALL", ExternalCalls(g), 0)>>
            ELSE <<>>)

RestScan(files) == ConcatAll([j \in 1..Len(files) |-> SyntheticIn(files[j])])

\* the list `components` before deduplication
Components(f, field, files) ==
    <<DeclComponent(f, field)>>
        \o ReferenceScan(f.path, DeclSnippet(f, field), field[3], files)
        \o RestScan(files)

(***************************************************************************)
(* Dependency graph: nodes and edges, before deduplication.                *)
(***************************************************************************)
Edge(comp, name, type) ==
    [from |-> comp.className, to |-> name, type |-> type, layer |-> comp.type]

\* fault variant of EdgesOf: the declaration edge without the layer test
EdgesOf_AnyLayer(comp, name) ==
       (IF comp.usageType \in {"private", "protected", "public"}
          THEN <<Edge(comp, name, "declaration")>> ELSE <<>>)
    \o (IF comp.usageType \in {"REFERENCE", "UI_REFERENCE"}
          THEN <<Edge(comp, name, "refers")>> ELSE <<>>)

\* fault variant of EdgesOf: the rules as one if/elif chain, the first rule
\* that applies gives the only edge
EdgesOf_FirstRule(comp, name) ==
    IF comp.type = "MODEL" /\ comp.usageType \in {"private", "protected", "public"}
      THEN <<Edge(comp, name, "declaration")>>
    ELSE IF comp.type = "REPOSITORY" THEN <<Edge(comp, name, "queries")>>
    ELSE IF comp.type = "SERVICE" THEN <<Edge(comp, name, "calls")>>
    ELSE IF comp.type = "CONTROLLER" THEN <<Edge(comp, name, "binds")>>
    ELSE IF comp.type = "UI" THEN <<Edge(comp, name, "ui-binds")>>
    ELSE IF comp.usageType \in {"REFERENCE", "UI_REFERENCE"}
      THEN <<Edge(comp, name, "refers")>>
    ELSE <<>>

EdgesOf(comp, name) ==
       (IF comp.type = "MODEL" /\ comp.usageType \in {"private", "protected", "public"}
          THEN <<Edge(comp, name, "declaration")>> ELSE <<>>)
    \o (IF comp.type = "REPOSITORY" THEN <<Edge(comp, name, "queries")>> ELSE <<>>)
    \o (IF comp.type = "SERVICE" THEN <<Edge(comp, name, "calls")>> ELSE <<>>)
    \o (IF comp.type = "CONTROLLER" THEN <<Edge(comp, name, "binds")>> ELSE <<>>)
    \o (IF comp.type = "UI" THEN <<Edge(comp, name, "ui-binds")>> ELSE <<>>)
    \o (IF comp.usageType \in {"REFERENCE", "UI_REFERENCE"}
          THEN <<Edge(comp, name, "refers")>> ELSE <<>>)

DepEdges(comps, name) == ConcatAll([i \in 1..Len(comps) |-> EdgesOf(comps[i], name)])

\* class names, the field name and file paths share one namespace of nodes:
\* a name is the one-component path <<name>>
DepNodes(comps, cls, name) ==
    {<<cls>>, <<name>>} \cup {<<comps[i].className>> : i \in 1..Len(comps)}
                        \cup {comps[i].filePath : i \in 1..Len(comps)}

(***************************************************************************)
(* Impact quadrants.                                                       *)
(***************************************************************************)
Explanation(rule, cls, name, detail) ==
    [rule |-> rule, cls |-> cls, field |-> name, detail |-> detail]

Finding(rule, comp, name, detail) ==
    [explanation |-> Explanation(rule, comp.className, name, detail),
     filePath |-> comp.filePath, lineRange |-> comp.lineRange]

Placeholder ==
    [explanation |-> Explanation("No impact found for this section.", "", "", <<>>),
     filePath |-> NoPath, lineRange |-> NoLine]

ApplicationOf(comp, name) ==
       (IF comp.type \in {"SERVICE", "CONTROLLER"}
          THEN <<Finding("Logic in {cls} may rely on {field}", comp, name, <<>>)>>
            \o (IF Contains(comp.snippet, "set") \/ Contains(comp.snippet, "update")
                  THEN <<Finding("Setter/update method for {field} in {cls}", comp, name, <<>>)>>
                  ELSE <<>>)
            \o (IF Contains(comp.snippet, "get")
                  THEN <<Finding("Getter/accessor for {field} in {cls}", comp, name, <<>>)>>
                  ELSE <<>>)
          ELSE <<>>)
    \o (IF comp.usageType = "REFERENCE" /\ comp.type \in {"SERVICE", "CONTROLLER"}
          THEN <<Finding("Direct reference to {field} in {cls}", comp, name, <<>>)>>
          ELSE <<>>)

\* fault variant of DatabaseOf: the repository finding without the layer test
DatabaseOf_AnyLayer(comp, name) ==
    <<Finding("Repository {cls} queries or updates {field}", comp, name, <<>>)>>

DatabaseOf(comp, name) ==
       (IF comp.type = "REPOSITORY"
          THEN <<Finding("Repository {cls} queries or updates {field}", comp, name, <<>>)>>
            \o (IF Contains(comp.snippet, "find") \/ Contains(comp.snippet, "save")
                  THEN <<Finding("Repository method {snippet} interacts with {field}",
                                 comp, name, comp.snippet)>>
                  ELSE <<>>)
          ELSE <<>>)
    \o (IF ContainsAny(comp.snippet,
                       {"sql", "select", "insert", "update", "delete", "where", "from"})
          THEN <<Finding("SQL/ORM logic involving {field} in {cls}", comp, name, <<>>)>>
          ELSE <<>>)
    \o (IF Contains(comp.snippet, "@column")
          THEN <<Finding("ORM annotation {snippet} for {field} in {cls}",
                         comp, name, comp.snippet)>>
          ELSE <<>>)

IntegrationOf(comp, name) ==
       (IF comp.type = "CONTROLLER"
          THEN <<Finding("API endpoint in {cls} exposes or modifies {field}", comp, name, <<>>)>>
            \o (IF Contains(comp.snippet, "@getmapping") \/ Contains(comp.snippet, "resttemplate")
                  THEN <<Finding("REST mapping or external API for {field} in {cls}",
                                 comp, name, <<>>)>>
                  ELSE <<>>)
          ELSE <<>>)
    \o (IF comp.type = "INTEGRATION"
          THEN <<Finding("External API call {snippet} in {cls} uses {field}",
                         comp, name, comp.snippet)>>
          ELSE <<>>)
    \o (IF comp.type = "UI"
          THEN <<Finding("UI element in {cls} binds to {field}", comp, name, <<>>)>>
          ELSE <<>>)
    \o (IF comp.usageType = "UI_REFERENCE"
          THEN <<Finding("UI reference to {field} in {cls}", comp, name, <<>>)>>
          ELSE <<>>)

\* docs: the doc_comments of the field; path, lineNum, cls: the declaration's
DocsTestingOf(comp, name, docs, path, lineNum, cls) ==
       (IF Contains(<<comp.className>>, "test")
          THEN <<Finding("Test class {cls} covers {field}", comp, name, <<>>)>>
          ELSE <<>>)
    \o (IF Contains(comp.snippet, "@org.junit.test") \/ Contains(comp.snippet, "assert")
          THEN <<Finding("JUnit test for {field} in {cls}", comp, name, <<>>)>>
          ELSE <<>>)
    \o (IF Contains(comp.snippet, "doc") \/ Contains(comp.snippet, "javadoc")
          THEN <<Finding("Documentation for {field} in {cls}", comp, name, <<>>)>>
          ELSE <<>>)
    \o [d \in 1..Len(docs) |->
          [explanation |-> Explanation("Doc comment: {comment} for {field} in {cls}",
                                       cls, name, docs[d]),
           filePath |-> path, lineRange |-> lineNum]]

Quadrants == {"application", "database", "integration", "docsTesting"}

\* the findings the rules produce, before the placeholders are added
Findings(comps, name, docs, path, lineNum, cls) ==
    [application |-> ConcatAll([i \in 1..Len(comps) |-> ApplicationOf(comps[i], name)]),
     database    |-> ConcatAll([i \in 1..Len(comps) |-> DatabaseOf(comps[i], name)]),
     integration |-> ConcatAll([i \in 1..Len(comps) |-> IntegrationOf(comps[i], name)]),
     docsTesting |-> ConcatAll([i \in 1..Len(comps) |->
                        DocsTestingOf(comps[i], name, docs, path, lineNum, cls)])]

\* fault variant of FillEmpty: the default message is added to every quadrant
FillEmpty_Always(found) == [q \in Quadrants |-> found[q] \o <<Placeholder>>]

\* "Ensure all quadrants have at least a default message"
FillEmpty(found) ==
    [q \in Quadrants |-> IF found[q] = <<>> THEN <<Placeholder>> ELSE found[q]]

(***************************************************************************)
(* Deduplication: keep the first entry of every key.                       *)
(***************************************************************************)
ComponentKey(comp) == <<comp.className, comp.type, comp.filePath>>

EdgeKey(edge) == <<edge.from, edge.to, edge.type, edge.layer>>

\* fault variant of UniqueComponents: the last entry of every key is kept
UniqueComponents_KeepLast(comps) ==
    ConcatAll([i \in 1..Len(comps) |->
        IF \E j \in (i + 1)..Len(comps) : ComponentKey(comps[j]) = ComponentKey(comps[i])
          THEN <<>> ELSE <<comps[i]>>])

UniqueComponents(comps) ==
    ConcatAll([i \in 1..Len(comps) |->
        IF \E j \in 1..(i - 1) : ComponentKey(comps[j]) = ComponentKey(comps[i])
          THEN <<>> ELSE <<comps[i]>>])

\* fault variant of UniqueEdges: every edge is stored
UniqueEdges_KeepAll(edges) == edges

UniqueEdges(edges) ==
    ConcatAll([i \in 1..Len(edges) |->
        IF \E j \in 1..(i - 1) : EdgeKey(edges[j]) = EdgeKey(edges[i])
          THEN <<>> ELSE <<edges[i]>>])

(***************************************************************************)
(* The file system and what rglob finds in it.                             *)
(***************************************************************************)
Root == <<"proj">>        \* imports_folder

Suffix(name) ==
    CASE name \in {"User.java", "UserRepository.java", "UserServiceTest.java"} -> ".java"
      [] name = "index.html" -> ".html"
      [] OTHER -> ""

Parent(path) == SubSeq(path, 1, Len(path) - 1)

\* list(dir.rglob("*" + suffix))
RGlob(dir, suffix) ==
    LET Found(g) == IsPrefix(dir, Parent(g.path)) /\ Suffix(FileName(g.path)) = suffix
    IN  SelectSeq(fs, Found)

\* java_path.parent.parent
ScanRoot(f) == Parent(Parent(f.path))

all_java_files(f) == RGlob(ScanRoot(f), ".java")

all_html_files(f) == RGlob(ScanRoot(f), ".html")

\* read_text raises while the records of f are computed: f itself cannot be
\* read, or f has a field and some markup file of the scan cannot be read
Raises(f) ==
    \/ ~f.readable
    \/ Fields(f) # <<>> /\ \E h \in Range(all_html_files(f)) : ~h.readable

(***************************************************************************)
(* The record of one field.  Extraction is the record (attr_dict) together *)
(* with the intermediate values it was computed from.                      *)
(***************************************************************************)
Extraction(f, n) ==
    LET field   == Fields(f)[n]
        name    == field[3]
        cls     == ClassName(f)
        lineNum == DeclLineNum(f, field)
        docs    == DocComments(f, lineNum)
        comps   == Components(f, field, all_java_files(f))
        found   == Findings(comps, name, docs, f.path, lineNum, cls)
        edges   == DepEdges(comps, name)
    IN  [attr_dict |->
           [attributeName |-> name,
            aliases       |-> Aliases(f, name, lineNum),
            components    |-> UniqueComponents(comps),
            dependencies  |-> [nodes |-> DepNodes(comps, cls, name),
                               edges |-> UniqueEdges(edges)],
            impact        |-> FillEmpty(found),
            meta          |-> [source |-> f.path, type |-> field[2]]],
         path        |-> f.path,
         field       |-> field,
         field_line  |-> FieldLines(f)[n],
         line_num    |-> lineNum,
         snippet     |-> DeclSnippet(f, field),
         doc_comments |-> docs,
         components  |-> comps,
         dep_edges   |-> edges,
         found       |-> found]

\* attribute_dicts of one file, in field order
extract_attributes_from_java(f) ==
    [n \in 1..Len(Fields(f)) |-> Extraction(f, n)]

(***************************************************************************)
(* The output store: one document per file name <attributeName>.json.      *)
(***************************************************************************)
\* fault variant of Write: an existing document is not replaced
Write_KeepFirst(st, doc) ==
    [k \in DOMAIN st \cup {doc.attributeName} |->
        IF k \in DOMAIN st THEN st[k] ELSE doc]

Write(st, doc) ==
    [k \in DOMAIN st \cup {doc.attributeName} |->
        IF k = doc.attributeName THEN doc ELSE st[k]]

RECURSIVE WriteAll(_, _)
WriteAll(st, docs) ==
    IF docs = <<>> THEN st ELSE WriteAll(Write(st, Head(docs)), Tail(docs))

Dicts(exts) == [i \in 1..Len(exts) |-> exts[i].attr_dict]

\* key = data.get("attributeName") or json_file.stem
IndexKey(st, stem) ==
    IF st[stem].attributeName # "" THEN st[stem].attributeName ELSE stem

\* the index after the documents were read in the order `files`
RECURSIVE BuildIndex(_, _, _)
BuildIndex(ix, st, files) ==
    IF files = <<>> THEN ix
    ELSE LET key == IndexKey(st, Head(files))
         IN  BuildIndex([k \in DOMAIN ix \cup {key} |->
                            IF k = key THEN st[Head(files)] ELSE ix[k]],
                        st, Tail(files))

(***************************************************************************)
(* The file systems the model runs on.                                     *)
(***************************************************************************)
Line(lead, toks, term) == [lead |-> lead, toks |-> toks, term |-> term]

LineCatalogue ==
    {Line(1, <<"private", "String", "email", ";">>, "LF"),
     Line(0, <<"private", "String", "email", ";">>, "FF"),
     Line(0, <<"//", "private", "String", "email", ";">>, "LF"),
     Line(0, <<"//", "contact">>, "LF"),
     Line(1, <<"findByEmail", "(", "email", ")">>, "LF"),
     Line(0, <<"@GetMapping">>, "LF"),
     Line(0, <<"class", "User", "{">>, "LF"),
     Line(1, <<"public", "Date", "fromDate", ";">>, "LF")}

\* the paths a file can stand at, in the order a directory walk lists them
Paths ==
    <<<<"old", "UserRepository.java">>,
      <<"proj", "User.java">>,
      <<"proj", "app", "model", "User.java">>,
      <<"proj", "app", "repository", "UserRepository.java">>,
      <<"proj", "index.html">>,
      <<"proj", "repository", "UserRepository.java">>,
      <<"proj", "service", "UserServiceTest.java">>>>

File(path, readable, lines) == [path |-> path, readable |-> readable, lines |-> lines]

\* the texts of 1 to n lines
Texts(n) == UNION {[1..k -> LineCatalogue] : k \in 1..n}

\* the size a file takes of the bound
Size(g) == IF g.readable /\ g.lines # <<>> THEN Len(g.lines) ELSE 1

\* the files that can stand at a path, of size at most n (n >= 1)
FilesAt(path, n) ==
    {File(path, FALSE, <<>>)} \cup
    (IF Suffix(FileName(path)) = ".java" THEN {File(path, TRUE, t) : t \in Texts(n)}
                                         ELSE {File(path, TRUE, <<>>)})

\* the file systems with files at some of `paths`, of total size at most n
RECURSIVE FileSystems(_, _)
FileSystems(paths, n) ==
    IF paths = <<>> \/ n = 0 THEN {<<>>}
    ELSE FileSystems(Tail(paths), n) \cup
         UNION {{<<g>> \o more : more \in FileSystems(Tail(paths), n - Size(g))} :
                g \in FilesAt(Head(paths), n)}

(***************************************************************************)
(* The run: scan_java_project, then generate_index_json.                   *)
(***************************************************************************)
Init ==
    /\ fs \in FileSystems(Paths, MaxSize)
    /\ pending = RGlob(Root, ".java")
    /\ store = <<>>
    /\ log = <<>>
    /\ index = <<>>
    /\ status = "running"
    /\ zip_files = <<>>
    /\ reports = <<>>

\* one iteration of the loop over the project's .java files: the records of
\* the next file are computed and written, in field order
ScanFile ==
    /\ status = "running"
    /\ pending # <<>>
    /\ ~Raises(Head(pending))
    /\ LET attribute_dicts == extract_attributes_from_java(Head(pending))
       IN  /\ store' = WriteAll(store, Dicts(attribute_dicts))
           /\ log' = log \o attribute_dicts
    /\ pending' = Tail(pending)
    /\ UNCHANGED <<fs, index, status, zip_files, reports>>

\* the iteration raises: the exception leaves scan_java_project and main
ScanRaises ==
    /\ status = "running"
    /\ pending # <<>>
    /\ Raises(Head(pending))
    /\ status' = "aborted"
    /\ UNCHANGED <<fs, pending, store, log, index, zip_files, reports>>

\* the report on an archive after its scan: valid when the output directory
\* holds a non-empty .json file; records: the records computed so far
Report(st, lg) == [valid |-> DOMAIN st # {}, records |-> Len(lg)]

\* the scan of an archive has ended and another archive waits: the archive
\* is reported, the extraction directory is removed and the next archive is
\* extracted into it
NextArchive ==
    /\ status = "running"
    /\ pending = <<>>
    /\ zip_files # <<>>
    /\ reports' = Append(reports, Report(store, log))
    /\ fs' = Head(zip_files)
    /\ zip_files' = Tail(zip_files)
    /\ pending' = RGlob(Root, ".java")'
    /\ UNCHANGED <<store, log, index, status>>

\* the scan of the last archive has ended: the archive is reported, then
\* generate_index_json reads the documents in the order in which glob lists
\* them
GenerateIndex(files) ==
    /\ status = "running"
    /\ pending = <<>>
    /\ zip_files = <<>>
    /\ reports' = Append(reports, Report(store, log))
    /\ index' = BuildIndex(<<>>, store, files)
    /\ status' = "done"
    /\ UNCHANGED <<fs, pending, store, log, zip_files>>

Next ==
    \/ ScanFile
    \/ ScanRaises
    \/ \E files \in Perms(DOMAIN store) : GenerateIndex(files)

Spec == Init /\ [][Next]_vars

(***************************************************************************)
(* The same run over a project that is one source file of up to MaxLines   *)
(* lines.                                                                  *)
(***************************************************************************)
InitOneFile ==
    /\ fs \in {<<g>> : g \in UNION {FilesAt(Paths[p], MaxLines) :
                     p \in {q \in DOMAIN Paths : IsPrefix(Root, Paths[q])}}}
    /\ pending = RGlob(Root, ".java")
    /\ store = <<>>
    /\ log = <<>>
    /\ index = <<>>
    /\ status = "running"
    /\ zip_files = <<>>
    /\ reports = <<>>

SpecOneFile == InitOneFile /\ [][Next]_vars

(***************************************************************************)
(* The same run over a project that is one file of up to MaxAliasLines     *)
(* lines: one declaration, at most one line that is a source of an alias,  *)
(* blank lines elsewhere.                                                  *)
(***************************************************************************)
AliasLines ==
    {Line(1, <<"@Column", "(", "name", "=", "\"", "USER_EMAIL", "\"", ")">>, "LF"),
     Line(1, <<"@Table", "(", "name", "=", "\"", "USERS", "\"", ")">>, "LF"),
     Line(1, <<"//", "alias", ":", "mail">>, "LF"),
     Line(1, <<"//", "Alias", "mail">>, "LF"),
     Line(1, <<"email", "=", "contact", ";">>, "LF")}

\* the text of n lines with the declaration on line d and src on line a
AliasText(n, d, a, src) ==
    [k \in 1..n |-> IF k = d THEN Line(1, <<"private", "String", "email", ";">>, "LF")
                    ELSE IF k = a THEN src
                    ELSE Line(0, <<>>, "LF")]

InitAlias ==
    /\ \E len \in 1..MaxAliasLines : \E d \in 1..len : \E a \in (0..len) \ {d} :
       \E src \in AliasLines : \E readable \in BOOLEAN :
           fs = <<File(<<"proj", "app", "model", "User.java">>, readable,
                       IF readable THEN AliasText(len, d, a, src) ELSE <<>>)>>
    /\ pending = RGlob(Root, ".java")
    /\ store = <<>>
    /\ log = <<>>
    /\ index = <<>>
    /\ status = "running"
    /\ zip_files = <<>>
    /\ reports = <<>>

SpecAlias == InitAlias /\ [][Next]_vars

(***************************************************************************)
(* The run repeated with the directory walk listing the files in another   *)
(* order.  The project has up to MaxFiles source files of one line each;   *)
(* log keeps the records of both runs.                                     *)
(***************************************************************************)
OrderLines ==
    {Line(1, <<"private", "String", "email", ";">>, "LF"),
     Line(1, <<"findByEmail", "(", "email", ")">>, "LF"),
     Line(0, <<"@GetMapping">>, "LF")}

OrderPaths ==
    <<<<"proj", "User.java">>,
      <<"proj", "app", "model", "User.java">>,
      <<"proj", "app", "repository", "UserRepository.java">>,
      <<"proj", "service", "UserServiceTest.java">>>>

\* the listings of at most n files at some of `paths`, in the order of paths
RECURSIVE Listings(_, _)
Listings(paths, n) ==
    IF paths = <<>> \/ n = 0 THEN {<<>>}
    ELSE Listings(Tail(paths), n) \cup
         {<<g>> \o more :
            g \in {File(Head(paths), FALSE, <<>>)}
                    \cup {File(Head(paths), TRUE, <<l>>) : l \in OrderLines},
            more \in Listings(Tail(paths), n - 1)}

InitOrder ==
    /\ fs \in Listings(OrderPaths, MaxFiles)
    /\ pending = RGlob(Root, ".java")
    /\ store = <<>>
    /\ log = <<>>
    /\ index = <<>>
    /\ status = "running"
    /\ zip_files = <<>>
    /\ reports = <<>>

\* no declaration has been recorded twice: the run has not been repeated
FirstRun ==
    \A i, j \in 1..Len(log) :
        (log[i].path = log[j].path /\ log[i].field_line = log[j].field_line) => i = j

\* main is run again on the same project; the output directory is cleared
\* first, and rglob lists the files in the order p
Reorder(p) ==
    /\ status = "done"
    /\ FirstRun
    /\ fs' = [k \in 1..Len(fs) |-> fs[p[k]]]
    /\ fs' # fs
    /\ pending' = RGlob(Root, ".java")'
    /\ store' = <<>>
    /\ index' = <<>>
    /\ status' = "running"
    /\ reports' = <<>>
    /\ UNCHANGED <<log, zip_files>>

NextOrder ==
    \/ Next
    \/ \E p \in Perms(1..Len(fs)) : Reorder(p)

SpecOrder == InitOrder /\ [][NextOrder]_vars

(***************************************************************************)
(* main over up to MaxArchives archives.  The output directory is cleared  *)
(* once, before the first archive; every archive is extracted into the     *)
(* same directory, the project root of its scan.                           *)
(***************************************************************************)
ArchivePaths ==
    <<<<"proj", "app", "model", "User.java">>,
      <<"proj", "app", "repository", "UserRepository.java">>>>

\* what an archive can hold
Archives == Listings(ArchivePaths, MaxFiles)

InitMain ==
    /\ \E n \in 1..MaxArchives : \E zs \in [1..n -> Archives] :
           /\ fs = zs[1]
           /\ zip_files = Tail(zs)
    /\ pending = RGlob(Root, ".java")
    /\ store = <<>>
    /\ log = <<>>
    /\ index = <<>>
    /\ status = "running"
    /\ reports = <<>>

NextMain ==
    \/ Next
    \/ NextArchive

SpecMain == InitMain /\ [][NextMain]_vars

(***************************************************************************)
(* Properties.  log holds, in the order of their writing, the records the  *)
(* run has produced so far, each with the values it was computed from.     *)
(***************************************************************************)
Produced == Range(log)

\* the file of the file system at a path
FileAt(path) == CHOOSE g \in Range(fs) : g.path = path

HasPlaceholder(entries) == \E k \in 1..Len(entries) : entries[k] = Placeholder

\* C1: in every record produced, each of the four impact quadrants is
\* non-empty, and the placeholder entry appears in a quadrant if and only if
\* no rule produced a finding for that quadrant, in which case it is the
\* quadrant's only entry.
C1_QuadrantsFilled ==
    \A e \in Produced : \A q \in Quadrants :
        /\ DOMAIN e.attr_dict.impact = Quadrants
        /\ e.attr_dict.impact[q] # <<>>
        /\ HasPlaceholder(e.attr_dict.impact[q]) <=> e.found[q] = <<>>
        /\ e.found[q] = <<>> => e.attr_dict.impact[q] = <<Placeholder>>
        /\ e.found[q] # <<>> => e.attr_dict.impact[q] = e.found[q]

\* a record with a quadrant the rules filled and a quadrant they left empty
C1_Witness ==
    \E e \in Produced : \E q, r \in Quadrants :
        /\ e.found[q] = <<>> /\ e.attr_dict.impact[q] = <<Placeholder>>
        /\ e.found[r] # <<>> /\ ~HasPlaceholder(e.attr_dict.impact[r])

(***************************************************************************)
(* Occurrences of a field name in the file system.                         *)
(***************************************************************************)
\* the lines of g that hold the name as a whole word
LinesWith(g, name) == {k \in 1..Len(g.lines) : name \in Range(g.lines[k].toks)}

\* no file of the file system holds the name of e's field, the line of its
\* declaration apart
NowhereElse(e) ==
    \A g \in Range(fs) : \A k \in LinesWith(g, e.field[3]) :
        g.path = e.path /\ k = e.field_line

AllPlaceholders(e) == \A q \in Quadrants : e.attr_dict.impact[q] = <<Placeholder>>

\* the words the database and docsTesting rules look for in any snippet
SnippetWords == {"sql", "select", "insert", "update", "delete", "where", "from",
                 "@column", "@org.junit.test", "assert", "doc", "javadoc"}

\* C2 as stated: for every field that has zero occurrences anywhere in the
\* project, whatever its name, its class and the comments above it, all four
\* quadrants hold exactly the placeholder.
C2_Original == \A e \in Produced : NowhereElse(e) => AllPlaceholders(e)

\* C2 as amended: all four quadrants of a record hold exactly the placeholder
\* when the scan collected no occurrence besides the declaration component,
\* no documentation comment was collected above the declaration, the declaring
\* path classifies as MODEL or DEFAULT, the class name does not contain
\* "test", and the declaration snippet holds none of the words the database
\* and docsTesting rules look for.
C2_PlaceholdersOnly ==
    \A e \in Produced :
        ( /\ Len(e.components) = 1
          /\ e.doc_comments = <<>>
          /\ classify_layer(e.path) \in {"MODEL", "DEFAULT"}
          /\ ~Contains(<<ClassName(FileAt(e.path))>>, "test")
          /\ ~ContainsAny(e.snippet, SnippetWords) )
        => AllPlaceholders(e)

\* a field whose name stands nowhere but in its declaration, with four
\* placeholder quadrants
C2_Witness ==
    \E e \in Produced :
        /\ NowhereElse(e)
        /\ Len(e.components) = 1
        /\ e.doc_comments = <<>>
        /\ classify_layer(e.path) = "MODEL"
        /\ AllPlaceholders(e)

\* the first entry of a list that has the key of c
FirstWithKey(comps, c) ==
    comps[CHOOSE i \in 1..Len(comps) :
            /\ ComponentKey(comps[i]) = ComponentKey(c)
            /\ \A j \in 1..(i - 1) : ComponentKey(comps[j]) # ComponentKey(c)]

\* C3: in every assembled record no two entries of the components list share
\* the key (className, layer type, filePath); of the occurrences collected
\* with one key exactly one is stored, and it is the first one collected.
C3_OnePerKey ==
    \A e \in Produced :
        LET stored == e.attr_dict.components
        IN  /\ \A i, j \in 1..Len(stored) :
                   ComponentKey(stored[i]) = ComponentKey(stored[j]) => i = j
            /\ \A c \in Range(e.components) :
                   /\ Cardinality({i \in 1..Len(stored) :
                          ComponentKey(stored[i]) = ComponentKey(c)}) = 1
                   /\ FirstWithKey(e.components, c) \in Range(stored)
            /\ Range(stored) \subseteq Range(e.components)

\* two different occurrences were collected with one key (two matches in the
\* same file and class), and the record keeps one
C3_Witness ==
    \E e \in Produced : \E i, j \in 1..Len(e.components) :
        /\ i < j
        /\ ComponentKey(e.components[i]) = ComponentKey(e.components[j])
        /\ e.components[i] # e.components[j]
        /\ e.components[j].usageType = "REFERENCE"
        /\ e.components[i] \in Range(e.attr_dict.components)
        /\ e.components[j] \notin Range(e.attr_dict.components)

\* a whole-word match of name on line k of g, counted with its multiplicity
MatchesOn(g, k, name) ==
    Cardinality({c \in 1..Len(g.lines[k].toks) : g.lines[k].toks[c] = name})

\* the REFERENCE occurrences collected for line k of the file at path
ReferencesTo(e, path, k) ==
    {i \in 1..Len(e.components) :
        /\ e.components[i].usageType = "REFERENCE"
        /\ e.components[i].filePath = path
        /\ e.components[i].lineRange = k}

\* C4 as stated: the reference scan never emits a REFERENCE occurrence located
\* in the declaring file whose trimmed line text is identical to the
\* declaration snippet; every other whole-word match of the field name, in
\* the declaring file or any other scanned file, produces a REFERENCE
\* occurrence (with the trimmed text of its line) before deduplication.
C4_Original ==
    \A e \in Produced :
        /\ \A c \in Range(e.components) :
               ~(c.usageType = "REFERENCE" /\ c.filePath = e.path /\ c.snippet = e.snippet)
        /\ \A g \in Range(all_java_files(FileAt(e.path))) :
               g.readable => \A k \in 1..Len(g.lines) :
                   IF g.path = e.path /\ Strip(g.lines[k]) = e.snippet
                     THEN ReferencesTo(e, g.path, k) = {}
                     ELSE /\ Cardinality(ReferencesTo(e, g.path, k))
                               = MatchesOn(g, k, e.field[3])
                          /\ \A i \in ReferencesTo(e, g.path, k) :
                                 e.components[i].snippet = Strip(g.lines[k])

\* C5 as stated: a field referenced nowhere outside its declaration produces
\* a record whose components list has length exactly 1 and whose
\* dependencies.edges list is empty, for every declaring-file path.
C5_Original ==
    \A e \in Produced :
        NowhereElse(e) => /\ Len(e.attr_dict.components) = 1
                          /\ e.attr_dict.dependencies.edges = <<>>

\* C5 as amended: a field for which the scan collects no occurrence besides
\* its declaration (no reference, no file-level REST or external-call
\* component) produces a record whose components list has length exactly 1
\* and, when the declaring file's path classifies as DEFAULT, whose
\* dependencies.edges list is empty.
C5_DeclarationOnly ==
    \A e \in Produced :
        Len(e.components) = 1 =>
            /\ Len(e.attr_dict.components) = 1
            /\ e.attr_dict.components[1].usageType = e.field[1]
            /\ classify_layer(e.path) = "DEFAULT" => e.attr_dict.dependencies.edges = <<>>

\* a field declared in a DEFAULT-layer file beside another project file that
\* does not mention it: one component, no edge
C5_Witness ==
    \E e \in Produced :
        /\ NowhereElse(e)
        /\ \E g \in Range(all_java_files(FileAt(e.path))) :
               g.path # e.path /\ g.readable /\ g.lines # <<>>
        /\ Len(e.components) = 1
        /\ classify_layer(e.path) = "DEFAULT"
        /\ Len(e.attr_dict.components) = 1
        /\ e.attr_dict.dependencies.edges = <<>>

\* the records produced for a field name
RecordsOf(name) == {i \in 1..Len(log) : log[i].attr_dict.attributeName = name}

\* f declares one field on one line, in a MODEL-layer file of the project; r
\* is the project's only other source file, its path holds "repository" and
\* classifies as REPOSITORY, it declares nothing and uses the field's name as
\* a whole word on a line that holds a find... call
RepositoryScenario(f, r) ==
    /\ Range(RGlob(Root, ".java")) = {f, r}
    /\ f # r /\ f.readable /\ r.readable
    /\ Len(Fields(f)) = 1
    /\ classify_layer(f.path) = "MODEL"
    /\ Contains(r.path, "repository")
    /\ classify_layer(r.path) = "REPOSITORY"
    /\ Fields(r) = <<>>
    /\ \E k \in LinesWith(r, Fields(f)[1][3]) : Contains(r.lines[k].toks, "find")

RepositoryOutcome(f, r) ==
    LET name == Fields(f)[1][3]
    IN  /\ Cardinality(RecordsOf(name)) = 1
        /\ \A i \in RecordsOf(name) :
             LET d == log[i].attr_dict
             IN  /\ \E c \in Range(d.components) :
                        /\ c.type = "MODEL" /\ c.usageType \in Visibility
                        /\ c.className = ClassName(f) /\ c.filePath = f.path
                 /\ \E c \in Range(d.components) :
                        /\ c.type = "REPOSITORY" /\ c.usageType = "REFERENCE"
                        /\ c.className = ClassName(r) /\ c.filePath = r.path
                 /\ \E x \in Range(d.impact.database) : x.filePath = r.path
                 /\ \E x \in Range(d.dependencies.edges) :
                        x.from = ClassName(r) /\ x.to = name /\ x.type = "queries"

\* C6 as stated: for a project with one file declaring a field f on a single
\* line inside class C and a second file with class R whose path contains
\* "repository" and which uses f in a find... call, exactly one record for f
\* is produced, with a MODEL declaration component for C, a
\* REPOSITORY/REFERENCE component for R, a database finding located in R's
\* file and the edge {from: R, to: f, type: queries}.
C6_Original ==
    status = "done" =>
        \A f, r \in Range(fs) : RepositoryScenario(f, r) => RepositoryOutcome(f, r)

\* C7 as stated: a source or markup file that cannot be read never aborts the
\* run, whichever file it is.
C7_Original == status # "aborted"

PathsOf(files) == {files[i].path : i \in 1..Len(files)}

\* C8 as stated: for every field the reference scan examines exactly the
\* source files of the project root handed to the core, however deep the
\* declaring file sits: a whole-word use of the field name in any other
\* project file yields an occurrence, and no file outside the project root
\* is scanned.
C8_Original ==
    \A e \in Produced :
        /\ PathsOf(all_java_files(FileAt(e.path))) = PathsOf(RGlob(Root, ".java"))
        /\ \A g \in Range(RGlob(Root, ".java")) :
               (g.readable /\ g.path # e.path /\ LinesWith(g, e.field[3]) # {})
               => \E c \in Range(e.components) :
                      c.usageType = "REFERENCE" /\ c.filePath = g.path
        /\ \A c \in Range(e.components) : IsPrefix(Root, c.filePath)

\* the last record written for a field name
LastWritten(name) ==
    log[CHOOSE i \in RecordsOf(name) : \A j \in RecordsOf(name) : j <= i].attr_dict

\* C9: after any sequence of record writes the output store holds one record
\* per field name written, the record written last for that name; the index
\* built afterwards maps every field name that has a document to exactly that
\* record, keyed by its attributeName.
C9_LastWriteWins ==
    /\ DOMAIN store = {log[i].attr_dict.attributeName : i \in 1..Len(log)}
    /\ \A name \in DOMAIN store :
           store[name] = LastWritten(name) /\ store[name].attributeName = name
    /\ status = "done" =>
           /\ DOMAIN index = DOMAIN store
           /\ \A name \in DOMAIN index :
                  index[name] = LastWritten(name) /\ index[name].attributeName = name

\* two fields of one name in different files collided, and the store and the
\* index hold the later record
C9_Witness ==
    /\ status = "done"
    /\ \E i, j \in 1..Len(log) :
           /\ i < j
           /\ log[i].attr_dict.attributeName = log[j].attr_dict.attributeName
           /\ log[i].path # log[j].path
           /\ log[i].attr_dict # log[j].attr_dict
           /\ \A k \in RecordsOf(log[j].attr_dict.attributeName) : k <= j
           /\ index[log[j].attr_dict.attributeName] = log[j].attr_dict
    /\ Cardinality(DOMAIN store) = 1

\* C10 as stated: for every line that holds a field declaration the Field
\* Discoverer produces exactly one FieldDeclaration, which carries the
\* visibility, type and name of that line together with the 1-based line
\* number and the trimmed text of that same line, also when an earlier line
\* holds the same visibility/type/name text.
C10_Original ==
    \A e \in Produced :
        LET f == FileAt(e.path)
        IN  /\ FieldMatch(f.lines[e.field_line])
            /\ e.field = FieldOf(f.lines[e.field_line])
            /\ e.line_num = e.field_line
            /\ e.snippet = Strip(f.lines[e.field_line])

\* C11: in every assembled record no two edges of dependencies.edges share
\* the tuple (from, to, type, layer), and the deduplication is idempotent:
\* applied to its own output, or to the edges built from the occurrence list
\* concatenated with itself, it yields the stored edge list again.
C11_EdgesUnique ==
    \A e \in Produced :
        LET stored == e.attr_dict.dependencies.edges
            name   == e.attr_dict.attributeName
        IN  /\ \A i, j \in 1..Len(stored) :
                   EdgeKey(stored[i]) = EdgeKey(stored[j]) => i = j
            /\ UniqueEdges(stored) = stored
            /\ UniqueEdges(DepEdges(e.components \o e.components, name)) = stored
            /\ UniqueEdges(e.dep_edges \o e.dep_edges) = stored

\* the occurrences of a record gave one edge twice (a repository class that
\* declares the field and uses it), and the record stores it once
C11_Witness ==
    \E e \in Produced : \E i, j \in 1..Len(e.dep_edges) :
        /\ i < j
        /\ e.dep_edges[i] = e.dep_edges[j]
        /\ Len(e.attr_dict.dependencies.edges) < Len(e.dep_edges)
        /\ e.dep_edges[i] \in Range(e.attr_dict.dependencies.edges)

\* the edge types the selection table gives an occurrence, every rule on its
\* own
TableTypes(c) ==
    {t \in {"declaration", "queries", "calls", "binds", "ui-binds", "refers"} :
        \/ t = "declaration" /\ c.type = "MODEL" /\ c.usageType \in Visibility
        \/ t = "queries" /\ c.type = "REPOSITORY"
        \/ t = "calls" /\ c.type = "SERVICE"
        \/ t = "binds" /\ c.type = "CONTROLLER"
        \/ t = "ui-binds" /\ c.type = "UI"
        \/ t = "refers" /\ c.usageType \in {"REFERENCE", "UI_REFERENCE"}}

\* the edges the table gives the occurrences of a list
TableEdges(comps, name) ==
    UNION {{[from |-> comps[i].className, to |-> name, type |-> t,
             layer |-> comps[i].type] : t \in TableTypes(comps[i])} :
           i \in 1..Len(comps)}

\* C12: the edges the occurrences of a record contribute are exactly those of
\* the selection table, every rule evaluated on its own and giving one edge
\* per occurrence it applies to, and every edge of the stored graph goes from
\* the class name of an occurrence of the stored list to the field name and
\* carries that occurrence's layer.
C12_EdgeTable ==
    \A e \in Produced :
        LET name   == e.attr_dict.attributeName
            stored == e.attr_dict.dependencies.edges
        IN  /\ Range(e.dep_edges) = TableEdges(e.components, name)
            /\ Len(e.dep_edges) = Len(ConcatAll(
                   [i \in 1..Len(e.components) |->
                       [k \in 1..Cardinality(TableTypes(e.components[i])) |-> k]]))
            /\ Range(stored) = TableEdges(e.components, name)
            /\ \A x \in Range(stored) :
                   /\ x.to = name
                   /\ \E c \in Range(e.attr_dict.components) :
                          x.from = c.className /\ x.layer = c.type

\* an occurrence two rules apply to (a reference in a repository class) with
\* both its edges in the graph
C12_Witness ==
    \E e \in Produced : \E c \in Range(e.components) :
        /\ c.type = "REPOSITORY" /\ c.usageType = "REFERENCE"
        /\ TableTypes(c) = {"queries", "refers"}
        /\ \A t \in TableTypes(c) :
               [from |-> c.className, to |-> e.attr_dict.attributeName, type |-> t,
                layer |-> "REPOSITORY"] \in Range(e.attr_dict.dependencies.edges)

\* the findings of the docsTesting quadrant that stand for comment number d
\* of the comments collected above the declaration
DocFindings(e, d) ==
    {k \in 1..Len(e.attr_dict.impact.docsTesting) :
        LET x == e.attr_dict.impact.docsTesting[k]
        IN  /\ x.explanation.rule = "Doc comment: {comment} for {field} in {cls}"
            /\ x.explanation.detail = e.doc_comments[d]}

\* C13 as stated: every documentation comment collected above a declaration
\* yields exactly one docsTesting finding, anchored at the declaring file and
\* the declaration line, however many occurrences the field has.
C13_Original ==
    \A e \in Produced : \A d \in 1..Len(e.doc_comments) :
        /\ Cardinality(DocFindings(e, d))
             = Cardinality({c \in 1..Len(e.doc_comments) : e.doc_comments[c] = e.doc_comments[d]})
        /\ \A k \in DocFindings(e, d) :
               /\ e.attr_dict.impact.docsTesting[k].filePath = e.path
               /\ e.attr_dict.impact.docsTesting[k].lineRange = e.line_num

\* C14 as stated: the edges and the impact findings of a record are those the
\* edge and quadrant rules give for the record's deduplicated component list;
\* an occurrence that deduplication removes contributes no edge and no
\* finding.
C14_Original ==
    \A e \in Produced :
        LET unique == e.attr_dict.components
            name   == e.attr_dict.attributeName
            found  == Findings(unique, name, e.doc_comments, e.path, e.line_num,
                               ClassName(FileAt(e.path)))
        IN  /\ Range(e.attr_dict.dependencies.edges) = Range(DepEdges(unique, name))
            /\ \A q \in Quadrants :
                   Range(e.attr_dict.impact[q]) = Range(FillEmpty(found)[q])

\* the names line k of f gives as an annotation argument or an alias comment
NamedOn(f, k) ==
    AnnotationAlias(f.lines[k], "@Column") \cup AnnotationAlias(f.lines[k], "@Table")
        \cup CommentAlias(f.lines[k])

\* the names some line of f gives as the right side of an assignment to name
AssignedIn(f, name) == UNION {AssignAliases(f.lines[k], name) : k \in 1..Len(f.lines)}

\* C15 as stated: an @Column(name="X") or @Table(name="X") argument, or a
\* '// alias: X' comment, contributes X to the alias set of a field if and
\* only if it stands on a line from 6 lines above to 2 lines below the
\* declaration line; with no matching source the alias set is empty.
C15_Original ==
    \A e \in Produced :
        LET f    == FileAt(e.path)
            name == e.attr_dict.attributeName
        IN  /\ \A k \in 1..Len(f.lines) : \A X \in NamedOn(f, k) \ AssignedIn(f, name) :
                   (\A m \in 1..Len(f.lines) : X \in NamedOn(f, m) => m = k)
                   => (X \in e.attr_dict.aliases
                         <=> e.line_num - 6 <= k /\ k <= e.line_num + 2)
            /\ ( /\ AssignedIn(f, name) = {}
                 /\ \A k \in 1..Len(f.lines) : NamedOn(f, k) = {} )
               => e.attr_dict.aliases = {}

\* how often x stands in the list s
Count(s, x) == Cardinality({k \in 1..Len(s) : s[k] = x})

SameBag(s, t) == \A x \in Range(s) \cup Range(t) : Count(s, x) = Count(t, x)

KeysOf(comps) == {ComponentKey(comps[k]) : k \in 1..Len(comps)}

\* records i and j of the log are of one declaration
SameDeclaration(i, j) ==
    /\ log[i].path = log[j].path
    /\ log[i].field_line = log[j].field_line

\* C16: for a fixed project and declaration, the records of two scans that
\* list the project's files in different orders have the same set of
\* component keys (className, layer, filePath), the same node set and the
\* same edge set of the dependency graph, the same alias set, and in every
\* impact quadrant the same multiset of findings.
C16_OrderIndependent ==
    \A i, j \in 1..Len(log) :
        SameDeclaration(i, j) =>
            LET a == log[i].attr_dict
                b == log[j].attr_dict
            IN  /\ a.attributeName = b.attributeName
                /\ KeysOf(a.components) = KeysOf(b.components)
                /\ a.dependencies.nodes = b.dependencies.nodes
                /\ Range(a.dependencies.edges) = Range(b.dependencies.edges)
                /\ a.aliases = b.aliases
                /\ \A q \in Quadrants : SameBag(a.impact[q], b.impact[q])

\* one declaration recorded in two scans that collected the occurrences of
\* two other files in different orders
C16_Witness ==
    \E i, j \in 1..Len(log) :
        /\ i < j
        /\ SameDeclaration(i, j)
        /\ Len(log[i].attr_dict.components) >= 3
        /\ log[i].attr_dict.components # log[j].attr_dict.components
        /\ log[i].attr_dict.dependencies.edges # log[j].attr_dict.dependencies.edges
        /\ KeysOf(log[i].attr_dict.components) = KeysOf(log[j].attr_dict.components)

\* the records the scan of archive number i computed
RecordsOfArchive(i) ==
    reports[i].records - (IF i = 1 THEN 0 ELSE reports[i - 1].records)

\* C17 as stated: in a run over a sequence of archives, an archive whose
\* extraction yields no record is reported as an empty result, whatever
\* earlier archives of the run wrote to the output store; the run goes on
\* with the next archive and the index is generated at the end.
C17_Original ==
    /\ \A i \in 1..Len(reports) : RecordsOfArchive(i) = 0 => ~reports[i].valid
    /\ status = "done" => DOMAIN index = DOMAIN store

====
